---------------------------- MODULE Spec2Model ----------------------------
(***************************************************************************)
(* A model of src/app/main.py, the Mr. Teals paper-trading backend: the    *)
(* in-memory account ledger with its manual trade and reset handlers, the  *)
(* price feed coroutine with its start / pause / kill controls, the        *)
(* WebSocket connection manager the feed broadcasts through, the watchlist *)
(* and the risk settings.                                                  *)
(*                                                                         *)
(* Numbers.  The program computes in floats; the model computes in         *)
(* integers.  Money is in USD, a quantity is counted in tenths of a unit   *)
(* of the base asset (quantity 1 is the request quantity=0.1) and a price  *)
(* is in USD per whole unit and a multiple of 10, so quantity * price is   *)
(* (q * p) \div 10 exactly.                                                *)
(*                                                                         *)
(* Strings the program case-folds (symbol, side) have their spelling in    *)
(* the table Spelling, and str.upper() is computed on the spelling,        *)
(* character by character.                                                 *)
(*                                                                         *)
(* Scheduling.  The program runs on one asyncio event loop: a handler or   *)
(* a coroutine runs without interruption from one await to the next, so    *)
(* each action below is the code between two suspension points.            *)
(***************************************************************************)
EXTENDS Integers, Sequences, FiniteSets, TLC

VARIABLES
    account_snapshot,    \* main.py:96   equity, cash, positions_value, unrealized_pnl
    performance_today,   \* main.py:103  realized_pnl, unrealized_pnl, trades_count
    last_trade,          \* main.py:109  the record get_last_trade returns
    positions,           \* main.py:129  dict symbol -> held quantity
    trade_log,           \* main.py:132  list of executed trades
    initial_balance,     \* main.py:135
    watchlist,           \* main.py:88
    settings,            \* main.py:121  the risk settings
    bot_running,         \* main.py:89
    bot_paused,          \* main.py:90
    bot_task,            \* main.py:91   the task handle, NoTask for None
    active_connections,  \* main.py:54   manager.active_connections
    tasks,               \* every price_feed() task created so far, by handle
    sessions,            \* the state of each client's WebSocket
    last_send,           \* the last send_json call that delivered a message
    request,             \* the last request handled, with the quote it was given
    response,            \* what that request returned
    lookup               \* the current_prices (main.py:184) of the recompute that
                         \* request made, empty when it made none

ledger == <<account_snapshot, performance_today, last_trade, positions,
            trade_log, initial_balance>>
feed == <<watchlist, settings, bot_running, bot_paused, bot_task,
          active_connections, tasks, sessions, last_send>>
vars == <<account_snapshot, performance_today, last_trade, positions,
          trade_log, initial_balance, watchlist, settings,
          bot_running, bot_paused, bot_task, active_connections, tasks,
          sessions, last_send, request, response, lookup>>

-----------------------------------------------------------------------------
(* Bounds of the model *)

\* prices the quote source may return: 0, 20000, ..., MaxPrice * 20000
MaxPrice == 1
\* the largest quantity requested, in tenths of a unit
MaxQty == 2
\* the longest trade log; a trade that would succeed is not issued beyond it
MaxLog == 2
\* the positive balance reset is called with
MaxBalance == 4000
\* how many price_feed() tasks start_bot may create in one run
MaxTasks == 2
\* how many clients ever connect to /ws
MaxSessions == 2
\* the longest registry direct calls of ConnectionManager.connect build
MaxConnections == 5

-----------------------------------------------------------------------------
(* Strings *)

LowerCase == <<"a","b","c","d","e","f","g","h","i","j","k","l","m",
               "n","o","p","q","r","s","t","u","v","w","x","y","z">>
UpperCase == <<"A","B","C","D","E","F","G","H","I","J","K","L","M",
               "N","O","P","Q","R","S","T","U","V","W","X","Y","Z">>

Chars == {LowerCase[i] : i \in 1..26} \cup {UpperCase[i] : i \in 1..26} \cup {"/"}

\* the upper-case form of each character: a lower-case letter maps to the
\* capital at the same place of the alphabet, anything else to itself
UpperChar ==
    [c \in Chars |->
        IF \E i \in 1..26 : LowerCase[i] = c
        THEN UpperCase[CHOOSE i \in 1..26 : LowerCase[i] = c]
        ELSE c]

\* str.upper() on a string spelled out as a sequence of characters
UpperString(s) == [i \in 1..Len(s) |-> UpperChar[s[i]]]

\* The strings of the model, each with its spelling.
Spelling ==
    ("BTC/USD" :> <<"B","T","C","/","U","S","D">>)
    @@ ("ETH/USD" :> <<"E","T","H","/","U","S","D">>)
    @@ ("eth/usd" :> <<"e","t","h","/","u","s","d">>)
    @@ ("SOL/USD" :> <<"S","O","L","/","U","S","D">>)
    @@ ("DOT/USD" :> <<"D","O","T","/","U","S","D">>)
    @@ ("DOGE/USD" :> <<"D","O","G","E","/","U","S","D">>)
    @@ ("ADA/USD" :> <<"A","D","A","/","U","S","D">>)
    @@ ("XYZ/USD" :> <<"X","Y","Z","/","U","S","D">>)
    @@ ("xyz/usd" :> <<"x","y","z","/","u","s","d">>)
    @@ ("Btc/Usd" :> <<"B","t","c","/","U","s","d">>)
    @@ ("BUY" :> <<"B","U","Y">>)
    @@ ("buy" :> <<"b","u","y">>)
    @@ ("SELL" :> <<"S","E","L","L">>)
    @@ ("HOLD" :> <<"H","O","L","D">>)

\* str.upper() of each string: the string spelled as its upper-cased spelling
UpperOf ==
    [s \in DOMAIN Spelling |->
        CHOOSE t \in DOMAIN Spelling : Spelling[t] = UpperString(Spelling[s])]

\* str.upper()
Upper(s) == UpperOf[s]

\* The symbols with a CoinGecko id; only these can ever be priced.
SYMBOL_TO_ID ==
    ("BTC/USD" :> "bitcoin") @@ ("ETH/USD" :> "ethereum") @@ ("SOL/USD" :> "solana")
    @@ ("DOT/USD" :> "polkadot") @@ ("DOGE/USD" :> "dogecoin") @@ ("ADA/USD" :> "cardano")

\* Request inputs: symbols in both letter cases, one of them without an id;
\* sides in both letter cases, one of them neither BUY nor SELL.
RawSymbols == {"BTC/USD", "eth/usd", "XYZ/USD"}
RawSides == {"buy", "SELL", "HOLD"}
\* symbols the watchlist handlers are called with: on the initial watchlist
\* or not, spelled in upper, lower and mixed case
WatchSymbols == {"BTC/USD", "Btc/Usd", "eth/usd", "XYZ/USD", "xyz/usd"}
\* the symbols added and removed while the feed runs: one on the initial
\* watchlist, one not
TickSymbols == {"BTC/USD", "xyz/usd"}
Quantities == {-1, 0, 1, MaxQty}
\* the requests made while the feed runs: trades of one symbol, on both
\* sides, of no quantity or of 0.1; resets without a balance or with one
MixSymbols == {"BTC/USD"}
MixSides == {"buy", "SELL"}
MixQuantities == {0, 1}
MixBalances == {<< >>, <<MaxBalance>>}
\* Optional[float] arguments of update_risk: None or a new value
RiskInputs == {<< >>, <<500>>}
Prices == {k * 20000 : k \in 0..MaxPrice}
\* Optional[float]: << >> is None, <<b>> is the balance b
Balances == {<< >>, <<-1000>>, <<MaxBalance>>}

EmptyMap == << >>

-----------------------------------------------------------------------------
(* The quote source *)

\* Every result fetch_live_prices(symbols) can return: a price for any subset
\* of the symbols that have an id, nothing for the others; a failed request
\* gives the empty mapping.
fetch_live_prices(symbols) ==
    LET known == {s \in symbols : s \in DOMAIN SYMBOL_TO_ID}
    IN  UNION {[d -> Prices] : d \in SUBSET known}

-----------------------------------------------------------------------------
(* The ledger *)

\* quantity * price, the quantity being in tenths
Amount(quantity, price) == (quantity * price) \div 10

\* positions.get(sym, 0.0)
Held(pos, sym) == IF sym \in DOMAIN pos THEN pos[sym] ELSE 0

\* SetPosition as a bug would have it: the dict is rebuilt with the one key
SetPosition_DropsOthers(pos, sym, qty) == [s \in {sym} |-> qty]

\* positions[sym] = qty
SetPosition(pos, sym, qty) ==
    [s \in DOMAIN pos \cup {sym} |-> IF s = sym THEN qty ELSE pos[s]]

RECURSIVE SumValue(_, _, _)
SumValue(syms, pos, current_prices) ==
    IF syms = {} THEN 0
    ELSE LET sym == CHOOSE s \in syms : TRUE
         IN  (IF sym \in DOMAIN current_prices
              THEN Amount(pos[sym], current_prices[sym]) ELSE 0)
             + SumValue(syms \ {sym}, pos, current_prices)

\* UpdatedSnapshot as a bug would have it: equity is left as it was
UpdatedSnapshot_StaleEquity(snapshot, pos, current_prices) ==
    [snapshot EXCEPT !.positions_value = SumValue(DOMAIN pos, pos, current_prices),
                     !.unrealized_pnl = 0]

\* UpdatedSnapshot as a bug would have it: the sum starts from the old value
UpdatedSnapshot_AddsToOldValue(snapshot, pos, current_prices) ==
    LET positions_value ==
            snapshot.positions_value + SumValue(DOMAIN pos, pos, current_prices)
    IN  [snapshot EXCEPT !.positions_value = positions_value,
                         !.unrealized_pnl = 0,
                         !.equity = snapshot.cash + positions_value]

\* update_account_snapshot(), given what fetch_live_prices returned
UpdatedSnapshot(snapshot, pos, current_prices) ==
    LET positions_value == SumValue(DOMAIN pos, pos, current_prices)
    IN  [snapshot EXCEPT !.positions_value = positions_value,
                         !.unrealized_pnl = 0,
                         !.equity = snapshot.cash + positions_value]

\* EnoughCash as a bug would have it: the test is missing
EnoughCash_NoCheck(snapshot, cost) == TRUE

\* manual_trade's test before a BUY (line 385 returns the error when it fails)
EnoughCash(snapshot, cost) == ~(snapshot.cash < cost)

\* manual_trade's test before a SELL (line 401 returns the error when it fails)
EnoughPosition(pos_qty, quantity) == ~(pos_qty < quantity)

LogEntry(sym, side, quantity, price) ==
    [symbol |-> sym, side |-> side,
     quantity |-> <<"str", quantity>>, price |-> <<"str", price>>]

Error(msg) == [error |-> msg]

TradeRequest(symbol, side, quantity, quote) ==
    [op |-> "trade", symbol |-> Upper(symbol), side |-> Upper(side),
     quantity |-> quantity, quote |-> quote]

\* Buy as a bug would have it: the trade is counted before the cash test
Buy_CountsBeforeCheck(sym, quantity, price) ==
    LET cost == Amount(quantity, price)
    IN  /\ performance_today' = [performance_today EXCEPT !.trades_count = @ + 1]
        /\ IF ~EnoughCash(account_snapshot, cost)
           THEN /\ response' = Error("insufficient cash")
                /\ UNCHANGED <<account_snapshot, last_trade, positions,
                               trade_log, initial_balance>>
                /\ lookup' = EmptyMap
           ELSE /\ Len(trade_log) < MaxLog
                /\ positions' = SetPosition(positions, sym, Held(positions, sym) + quantity)
                /\ trade_log' = Append(trade_log, LogEntry(sym, "BUY", quantity, price))
                /\ \E current_prices \in fetch_live_prices(DOMAIN positions') :
                       /\ lookup' = current_prices
                       /\ account_snapshot' =
                              UpdatedSnapshot([account_snapshot EXCEPT !.cash = @ - cost],
                                              positions', current_prices)
                /\ response' = [status |-> "ok"]
                /\ UNCHANGED <<last_trade, initial_balance>>

\* The BUY branch, lines 384-398, then update_account_snapshot and the return.
Buy(sym, quantity, price) ==
    LET cost == Amount(quantity, price)
    IN  IF ~EnoughCash(account_snapshot, cost)
        THEN /\ response' = Error("insufficient cash")
             /\ UNCHANGED ledger
             /\ lookup' = EmptyMap
        ELSE /\ Len(trade_log) < MaxLog
             /\ positions' = SetPosition(positions, sym, Held(positions, sym) + quantity)
             /\ performance_today' =
                    [performance_today EXCEPT !.trades_count = @ + 1]
             /\ trade_log' = Append(trade_log, LogEntry(sym, "BUY", quantity, price))
             /\ \E current_prices \in fetch_live_prices(DOMAIN positions') :
                    /\ lookup' = current_prices
                    /\ account_snapshot' =
                           UpdatedSnapshot([account_snapshot EXCEPT !.cash = @ - cost],
                                           positions', current_prices)
             /\ response' = [status |-> "ok"]
             /\ UNCHANGED <<last_trade, initial_balance>>

\* Sell as a bug would have it: the entry is put at the head of the log
Sell_LogsAtHead(sym, quantity, price) ==
    LET pos_qty == Held(positions, sym)
        proceeds == Amount(quantity, price)
    IN  IF ~EnoughPosition(pos_qty, quantity)
        THEN /\ response' = Error("insufficient position quantity")
             /\ UNCHANGED ledger
             /\ lookup' = EmptyMap
        ELSE /\ Len(trade_log) < MaxLog
             /\ positions' = SetPosition(positions, sym, pos_qty - quantity)
             /\ performance_today' =
                    [performance_today EXCEPT !.trades_count = @ + 1]
             /\ trade_log' = <<LogEntry(sym, "SELL", quantity, price)>> \o trade_log
             /\ \E current_prices \in fetch_live_prices(DOMAIN positions') :
                    /\ lookup' = current_prices
                    /\ account_snapshot' =
                           UpdatedSnapshot([account_snapshot EXCEPT !.cash = @ + proceeds],
                                           positions', current_prices)
             /\ response' = [status |-> "ok"]
             /\ UNCHANGED <<last_trade, initial_balance>>

\* The SELL branch, lines 400-415, then update_account_snapshot and the return.
Sell(sym, quantity, price) ==
    LET pos_qty == Held(positions, sym)
        proceeds == Amount(quantity, price)
    IN  IF ~EnoughPosition(pos_qty, quantity)
        THEN /\ response' = Error("insufficient position quantity")
             /\ UNCHANGED ledger
             /\ lookup' = EmptyMap
        ELSE /\ Len(trade_log) < MaxLog
             /\ positions' = SetPosition(positions, sym, pos_qty - quantity)
             /\ performance_today' =
                    [performance_today EXCEPT !.trades_count = @ + 1]
             /\ trade_log' = Append(trade_log, LogEntry(sym, "SELL", quantity, price))
             /\ \E current_prices \in fetch_live_prices(DOMAIN positions') :
                    /\ lookup' = current_prices
                    /\ account_snapshot' =
                           UpdatedSnapshot([account_snapshot EXCEPT !.cash = @ + proceeds],
                                           positions', current_prices)
             /\ response' = [status |-> "ok"]
             /\ UNCHANGED <<last_trade, initial_balance>>

\* TradeAfterQuote as a bug would have it: the quantity is tested before the price
TradeAfterQuote_QuantityFirst(sym, side_u, quantity, price_map) ==
    IF quantity <= 0
    THEN /\ response' = Error("quantity must be positive")
         /\ UNCHANGED ledger
         /\ lookup' = EmptyMap
    ELSE IF ~(sym \in DOMAIN price_map) \/ price_map[sym] <= 0
    THEN /\ response' = Error("Unknown price for symbol")
         /\ UNCHANGED ledger
         /\ lookup' = EmptyMap
    ELSE IF side_u = "BUY"
    THEN Buy(sym, quantity, price_map[sym])
    ELSE Sell(sym, quantity, price_map[sym])

\* What manual_trade does once the side is valid and the quote is in
\* (lines 376-415: the price test, then the quantity test, then the ledger).
TradeAfterQuote(sym, side_u, quantity, price_map) ==
    IF ~(sym \in DOMAIN price_map) \/ price_map[sym] <= 0
    THEN /\ response' = Error("Unknown price for symbol")
         /\ UNCHANGED ledger
         /\ lookup' = EmptyMap
    ELSE IF quantity <= 0
    THEN /\ response' = Error("quantity must be positive")
         /\ UNCHANGED ledger
         /\ lookup' = EmptyMap
    ELSE IF side_u = "BUY"
    THEN Buy(sym, quantity, price_map[sym])
    ELSE Sell(sym, quantity, price_map[sym])

\* POST /api/trade.  The handler has no await: it runs as one step.
manual_trade(symbol, side, quantity) ==
    LET sym == Upper(symbol)
        side_u == Upper(side)
    IN  /\ IF side_u \notin {"BUY", "SELL"}
           THEN /\ response' = Error("side must be BUY or SELL")
                /\ lookup' = EmptyMap
                /\ request' = TradeRequest(symbol, side, quantity, "none")
                /\ UNCHANGED ledger
           ELSE \E price_map \in fetch_live_prices({sym}) :
                    /\ request' = TradeRequest(symbol, side, quantity,
                                     IF sym \in DOMAIN price_map
                                     THEN <<price_map[sym]>> ELSE << >>)
                    /\ TradeAfterQuote(sym, side_u, quantity, price_map)
       /\ UNCHANGED feed

\* The snapshot reset_account installs for the balance bal_val.
ResetSnapshot(bal_val) ==
    [equity |-> bal_val, cash |-> bal_val, positions_value |-> 0,
     unrealized_pnl |-> 0]

\* reset_account as a bug would have it: the positions are not cleared
reset_account_KeepsPositions(balance) ==
    LET bal_val == IF balance # << >> THEN balance[1] ELSE initial_balance
    IN  /\ trade_log' = << >>
        /\ performance_today' =
               [realized_pnl |-> 0, unrealized_pnl |-> 0, trades_count |-> 0]
        /\ initial_balance' = bal_val
        /\ account_snapshot' = ResetSnapshot(bal_val)
        /\ lookup' = EmptyMap
        /\ request' = [op |-> "reset", balance |-> balance]
        /\ response' = account_snapshot'
        /\ UNCHANGED <<positions, last_trade, feed>>

\* reset_account as a bug would have it: the day's counters are left alone
reset_account_KeepsCount(balance) ==
    LET bal_val == IF balance # << >> THEN balance[1] ELSE initial_balance
    IN  /\ positions' = EmptyMap
        /\ trade_log' = << >>
        /\ initial_balance' = bal_val
        /\ account_snapshot' = ResetSnapshot(bal_val)
        /\ lookup' = EmptyMap
        /\ request' = [op |-> "reset", balance |-> balance]
        /\ response' = account_snapshot'
        /\ UNCHANGED <<performance_today, last_trade, feed>>

\* reset_account as a bug would have it: the reset stops the feed as well
reset_account_StopsFeed(balance) ==
    LET bal_val == IF balance # << >> THEN balance[1] ELSE initial_balance
    IN  /\ positions' = EmptyMap
        /\ trade_log' = << >>
        /\ performance_today' =
               [realized_pnl |-> 0, unrealized_pnl |-> 0, trades_count |-> 0]
        /\ initial_balance' = bal_val
        /\ account_snapshot' = ResetSnapshot(bal_val)
        /\ lookup' = EmptyMap
        /\ request' = [op |-> "reset", balance |-> balance]
        /\ response' = account_snapshot'
        /\ bot_running' = FALSE
        /\ bot_paused' = FALSE
        /\ UNCHANGED <<last_trade, watchlist, settings, bot_task,
                       active_connections, tasks, sessions, last_send>>

\* POST /api/reset
reset_account(balance) ==
    LET bal_val == IF balance # << >> THEN balance[1] ELSE initial_balance
    IN  /\ positions' = EmptyMap
        /\ trade_log' = << >>
        /\ performance_today' =
               [realized_pnl |-> 0, unrealized_pnl |-> 0, trades_count |-> 0]
        /\ initial_balance' = bal_val
        /\ account_snapshot' = ResetSnapshot(bal_val)
        /\ lookup' = EmptyMap
        /\ request' = [op |-> "reset", balance |-> balance]
        /\ response' = account_snapshot'
        /\ UNCHANGED <<last_trade, feed>>

\* GET /api/account/snapshot
get_account_snapshot ==
    /\ lookup' = EmptyMap
    /\ request' = [op |-> "snapshot",
                   after |-> IF request.op = "reset" THEN request
                             ELSE [op |-> request.op]]
    /\ response' = account_snapshot
    /\ UNCHANGED <<ledger, feed>>

\* GET /api/trades/last
get_last_trade ==
    /\ lookup' = EmptyMap
    /\ request' = [op |-> "last_trade"]
    /\ response' = last_trade
    /\ UNCHANGED <<ledger, feed>>

\* bot_task = None
NoTask == 0

-----------------------------------------------------------------------------
(* The connection manager *)

RECURSIVE RemoveFirst(_, _)
\* list.remove(x): the list without the first occurrence of x
RemoveFirst(list, x) ==
    IF list = << >> THEN << >>
    ELSE IF Head(list) = x THEN Tail(list)
    ELSE <<Head(list)>> \o RemoveFirst(Tail(list), x)

\* ConnectionManager.disconnect: remove, and ignore a websocket not in the list
Disconnect(conns, websocket) == RemoveFirst(conns, websocket)

\* send_json on a websocket raises once its client is gone
SendFails(websocket) == sessions[websocket] # "open"

\* Sweep as a bug would have it: a send that raises drops its connection
\* and ends the broadcast
Sweep_StopsAtFailure(targets, idx, conns) ==
    IF idx > Len(targets) THEN [next |-> 0, conns |-> conns]
    ELSE IF sessions[targets[idx]] = "open" THEN [next |-> idx, conns |-> conns]
    ELSE [next |-> 0, conns |-> Disconnect(conns, targets[idx])]

RECURSIVE Sweep(_, _, _)
\* ConnectionManager.broadcast from the idx-th websocket of its copy of the
\* list: every send that raises drops its connection and the loop goes on,
\* up to the first send that is delivered (next, 0 when the copy is used up).
Sweep(targets, idx, conns) ==
    IF idx > Len(targets) THEN [next |-> 0, conns |-> conns]
    ELSE IF ~SendFails(targets[idx]) THEN [next |-> idx, conns |-> conns]
    ELSE Sweep(targets, idx + 1, Disconnect(conns, targets[idx]))

-----------------------------------------------------------------------------
(* The price feed task *)

NoMessage == [type |-> "none", data |-> << >>]

\* a task just made by asyncio.create_task(price_feed()): it has not run yet
NewTask ==
    [pc |-> "created", must_cancel |-> FALSE, message |-> NoMessage,
     targets |-> << >>, idx |-> 0, notified |-> FALSE]

\* a task whose coroutine has returned
Finished(task) ==
    [task EXCEPT !.pc = "done", !.must_cancel = FALSE, !.message = NoMessage,
                 !.targets = << >>, !.idx = 0]

\* The payload of one tick: a price for every symbol of the watchlist.  The
\* prices are random.uniform(100, 40000) and the timestamp is the clock's;
\* the model keeps the symbols.
PricesMessage == [type |-> "prices", data |-> watchlist]
StatusMessage == [type |-> "status", data |-> <<"stopped">>]

\* manager.broadcast(message) from the idx-th websocket of the copy `targets`,
\* up to the next suspension: the await of a delivered send_json, the
\* asyncio.sleep(1) that follows the broadcast of a tick, or the return that
\* follows the broadcast of the status.
Broadcast(t, message, targets, idx, notified) ==
    LET sw == Sweep(targets, idx, active_connections)
    IN  /\ active_connections' = sw.conns
        /\ IF sw.next # 0
           THEN /\ tasks' = [tasks EXCEPT ![t] =
                       [pc |-> "send", must_cancel |-> FALSE, message |-> message,
                        targets |-> targets, idx |-> sw.next, notified |-> notified]]
                /\ last_send' = [seq |-> 1 - last_send.seq, type |-> message.type,
                                 data |-> message.data,
                                 session |-> targets[sw.next], task |-> t]
           ELSE /\ tasks' = [tasks EXCEPT ![t] =
                       IF message.type = "prices"
                       THEN [NewTask EXCEPT !.pc = "sleep", !.notified = notified]
                       ELSE [Finished(NewTask) EXCEPT !.notified = notified]]
                /\ UNCHANGED last_send

\* The head of price_feed's loop, lines 208-227.
LoopHead(t) ==
    IF ~bot_running
    THEN Broadcast(t, StatusMessage, active_connections, 1, TRUE)
    ELSE IF bot_paused
    THEN /\ tasks' = [tasks EXCEPT ![t].pc = "sleep"]
         /\ UNCHANGED <<active_connections, last_send>>
    ELSE Broadcast(t, PricesMessage, active_connections, 1, tasks[t].notified)

\* FeedStep as a bug would have it: the payload holds the watchlist itself,
\* not a copy, so a send that follows a watchlist change carries the change
FeedStep_LivePayload(t) ==
    /\ t \in DOMAIN tasks
    /\ tasks[t].pc # "done"
    /\ IF tasks[t].must_cancel
       THEN /\ tasks' = [tasks EXCEPT ![t] = Finished(tasks[t])]
            /\ UNCHANGED <<active_connections, last_send>>
       ELSE IF tasks[t].pc = "send"
       THEN Broadcast(t, [tasks[t].message EXCEPT
                             !.data = IF tasks[t].message.type = "prices"
                                      THEN watchlist ELSE @],
                      tasks[t].targets, tasks[t].idx + 1, tasks[t].notified)
       ELSE LoopHead(t)
    /\ UNCHANGED <<ledger, settings, watchlist, bot_running, bot_paused,
                   bot_task, sessions, request, response, lookup>>

\* The event loop runs task t up to its next await.  A cancelled task gets
\* CancelledError at the await it is suspended in (or before its first
\* statement): broadcast's `except Exception` does not catch it, price_feed's
\* handler at line 228 does, and the coroutine returns.
FeedStep(t) ==
    /\ t \in DOMAIN tasks
    /\ tasks[t].pc # "done"
    /\ IF tasks[t].must_cancel
       THEN /\ tasks' = [tasks EXCEPT ![t] = Finished(tasks[t])]
            /\ UNCHANGED <<active_connections, last_send>>
       ELSE IF tasks[t].pc = "send"
       THEN Broadcast(t, tasks[t].message, tasks[t].targets, tasks[t].idx + 1,
                      tasks[t].notified)
       ELSE LoopHead(t)
    /\ UNCHANGED <<ledger, settings, watchlist, bot_running, bot_paused,
                   bot_task, sessions, request, response, lookup>>

\* Task.cancel(): nothing for a task that is done
Cancel(task) == IF task.pc = "done" THEN task ELSE [task EXCEPT !.must_cancel = TRUE]

-----------------------------------------------------------------------------
(* The watchlist *)

\* x in list
In(x, list) == \E i \in DOMAIN list : list[i] = x

\* add_symbol as a bug would have it: the symbol is stored as it was typed
add_symbol_AsTyped(symbol) ==
    /\ watchlist' = IF ~In(symbol, watchlist) THEN Append(watchlist, symbol)
                    ELSE watchlist
    /\ lookup' = EmptyMap
    /\ request' = [op |-> "add", symbol |-> symbol, before |-> watchlist]
    /\ response' = [watchlist |-> watchlist']
    /\ UNCHANGED <<ledger, settings, bot_running, bot_paused, bot_task,
                   active_connections, tasks, sessions, last_send>>

\* POST /api/watchlist/add
add_symbol(symbol) ==
    LET sym == Upper(symbol)
    IN  /\ watchlist' = IF ~In(sym, watchlist) THEN Append(watchlist, sym)
                        ELSE watchlist
        /\ lookup' = EmptyMap
        /\ request' = [op |-> "add", symbol |-> symbol, before |-> watchlist]
        /\ response' = [watchlist |-> watchlist']
        /\ UNCHANGED <<ledger, settings, bot_running, bot_paused, bot_task,
                       active_connections, tasks, sessions, last_send>>

\* POST /api/watchlist/remove
remove_symbol(symbol) ==
    LET sym == Upper(symbol)
    IN  /\ watchlist' = RemoveFirst(watchlist, sym)
        /\ lookup' = EmptyMap
        /\ request' = [op |-> "remove", symbol |-> symbol, before |-> watchlist]
        /\ response' = [watchlist |-> watchlist']
        /\ UNCHANGED <<ledger, settings, bot_running, bot_paused, bot_task,
                       active_connections, tasks, sessions, last_send>>

-----------------------------------------------------------------------------

(* The risk settings *)

\* Optional[float]: the value given, or the one in place for None
Given(value, current) == IF value # << >> THEN value[1] ELSE current

\* POST /api/settings/risk.  stop_loss_pct is in hundredths (5 is 0.05).
update_risk(position_size, max_daily_loss, stop_loss_pct) ==
    /\ settings' =
           [position_size |-> Given(position_size, settings.position_size),
            max_daily_loss |-> Given(max_daily_loss, settings.max_daily_loss),
            stop_loss_pct |-> Given(stop_loss_pct, settings.stop_loss_pct)]
    /\ lookup' = EmptyMap
    /\ request' = [op |-> "risk"]
    /\ response' = settings'
    /\ UNCHANGED <<ledger, watchlist, bot_running, bot_paused, bot_task,
                   active_connections, tasks, sessions, last_send>>

-----------------------------------------------------------------------------

(* The controls *)

\* start_bot as a bug would have it: the running flag is not tested
start_bot_NoGuard ==
    /\ Len(tasks) < MaxTasks
    /\ bot_running' = TRUE
    /\ bot_paused' = FALSE
    /\ tasks' = Append(tasks, NewTask)
    /\ bot_task' = Len(tasks) + 1
    /\ lookup' = EmptyMap
    /\ request' = [op |-> "start"]
    /\ response' = [status |-> "running"]
    /\ UNCHANGED <<ledger, settings, watchlist, active_connections, sessions,
                   last_send>>

\* POST /api/control/start
start_bot ==
    /\ IF ~bot_running
       THEN /\ Len(tasks) < MaxTasks
            /\ bot_running' = TRUE
            /\ bot_paused' = FALSE
            /\ tasks' = Append(tasks, NewTask)
            /\ bot_task' = Len(tasks) + 1
       ELSE UNCHANGED <<bot_running, bot_paused, tasks, bot_task>>
    /\ lookup' = EmptyMap
    /\ request' = [op |-> "start"]
    /\ response' = [status |-> "running"]
    /\ UNCHANGED <<ledger, settings, watchlist, active_connections, sessions,
                   last_send>>

\* POST /api/control/pause
pause_bot ==
    /\ IF bot_running
       THEN bot_paused' = TRUE /\ response' = [status |-> "paused"]
       ELSE UNCHANGED bot_paused /\ response' = [status |-> "stopped"]
    /\ lookup' = EmptyMap
    /\ request' = [op |-> "pause"]
    /\ UNCHANGED <<ledger, settings, watchlist, bot_running, bot_task, tasks,
                   active_connections, sessions, last_send>>

\* kill_bot as a bug would have it: the flags are cleared, the task is not cancelled
kill_bot_NoCancel ==
    /\ bot_running' = FALSE
    /\ bot_paused' = FALSE
    /\ bot_task' = NoTask
    /\ lookup' = EmptyMap
    /\ request' = [op |-> "kill"]
    /\ response' = [status |-> "killed"]
    /\ UNCHANGED <<ledger, settings, watchlist, tasks, active_connections,
                   sessions, last_send>>

\* POST /api/control/kill
kill_bot ==
    /\ bot_running' = FALSE
    /\ bot_paused' = FALSE
    /\ IF bot_task # NoTask
       THEN /\ tasks' = [tasks EXCEPT ![bot_task] = Cancel(tasks[bot_task])]
            /\ bot_task' = NoTask
       ELSE UNCHANGED <<tasks, bot_task>>
    /\ lookup' = EmptyMap
    /\ request' = [op |-> "kill"]
    /\ response' = [status |-> "killed"]
    /\ UNCHANGED <<ledger, settings, watchlist, active_connections, sessions,
                   last_send>>

-----------------------------------------------------------------------------
(* The /ws endpoint, one call per client *)

\* websocket_endpoint is entered and manager.connect returns: accept() has
\* completed and the websocket has joined the list (nothing shared is read
\* or written before accept() returns); the endpoint waits in receive_text.
ws_connect(s) ==
    /\ sessions[s] = "new"
    /\ sessions' = [sessions EXCEPT ![s] = "open"]
    /\ active_connections' = Append(active_connections, s)
    /\ UNCHANGED <<ledger, settings, watchlist, bot_running, bot_paused,
                   bot_task, tasks, last_send, request, response, lookup>>

\* the client goes away; the server has not noticed yet
client_gone(s) ==
    /\ sessions[s] = "open"
    /\ sessions' = [sessions EXCEPT ![s] = "gone"]
    /\ UNCHANGED <<ledger, settings, watchlist, bot_running, bot_paused,
                   bot_task, active_connections, tasks, last_send, request,
                   response, lookup>>

\* receive_text raises WebSocketDisconnect: manager.disconnect(websocket)
ws_disconnected(s) ==
    /\ sessions[s] = "gone"
    /\ sessions' = [sessions EXCEPT ![s] = "closed"]
    /\ active_connections' = Disconnect(active_connections, s)
    /\ UNCHANGED <<ledger, settings, watchlist, bot_running, bot_paused,
                   bot_task, tasks, last_send, request, response, lookup>>

-----------------------------------------------------------------------------
\* ConnectionManager.connect called on any websocket.  accept() is the
\* websocket's own method: it returns, or it raises and connect ends there,
\* before the append.  connect makes no test of its own.
connect(websocket) ==
    /\ Len(active_connections) < MaxConnections
    /\ \E accepted \in BOOLEAN :
          IF accepted
          THEN /\ active_connections' = Append(active_connections, websocket)
               /\ response' = [returned |-> TRUE]
          ELSE /\ UNCHANGED active_connections
               /\ response' = [raised |-> "accept"]
    /\ lookup' = EmptyMap
    /\ request' = [op |-> "connect", websocket |-> websocket]
    /\ UNCHANGED <<ledger, settings, watchlist, bot_running, bot_paused,
                   bot_task, tasks, sessions, last_send>>

\* ConnectionManager.disconnect called on any websocket
disconnect(websocket) ==
    /\ active_connections' = Disconnect(active_connections, websocket)
    /\ lookup' = EmptyMap
    /\ request' = [op |-> "disconnect", websocket |-> websocket]
    /\ response' = [returned |-> TRUE]
    /\ UNCHANGED <<ledger, settings, watchlist, bot_running, bot_paused,
                   bot_task, tasks, sessions, last_send>>

(* The state after the module is imported *)

Init ==
    /\ account_snapshot = [equity |-> 10000, cash |-> 10000,
                           positions_value |-> 0, unrealized_pnl |-> 0]
    /\ performance_today = [realized_pnl |-> 0, unrealized_pnl |-> 0, trades_count |-> 0]
    /\ last_trade = [symbol |-> "None", side |-> "None", quantity |-> "None",
                     price |-> "None", time |-> "None", strategy |-> "None"]
    /\ positions = EmptyMap
    /\ trade_log = << >>
    /\ initial_balance = 10000
    /\ watchlist = <<"BTC/USD", "ETH/USD", "SOL/USD", "DOT/USD", "DOGE/USD">>
    /\ settings = [position_size |-> 1000, max_daily_loss |-> 1000,
                   stop_loss_pct |-> 5]
    /\ bot_running = FALSE
    /\ bot_paused = FALSE
    /\ bot_task = NoTask
    /\ active_connections = << >>
    /\ tasks = << >>
    /\ sessions = [s \in 1..MaxSessions |-> "new"]
    /\ last_send = [seq |-> 0, type |-> "none", data |-> << >>, session |-> 0,
                    task |-> NoTask]
    /\ request = [op |-> "none"]
    /\ response = [none |-> TRUE]
    /\ lookup = EmptyMap

\* The account: trades, resets and reads in any order.
Next ==
    \/ \E symbol \in RawSymbols, side \in RawSides, quantity \in Quantities :
           manual_trade(symbol, side, quantity)
    \/ \E balance \in Balances : reset_account(balance)
    \/ get_account_snapshot
    \/ get_last_trade

Spec == Init /\ [][Next]_vars

\* The feed: the controls, the clients and the price feed tasks interleaved.
FeedNext ==
    \/ start_bot
    \/ pause_bot
    \/ kill_bot
    \/ \E t \in 1..MaxTasks : FeedStep(t)
    \/ \E s \in 1..MaxSessions : ws_connect(s)
    \/ \E s \in 1..MaxSessions : client_gone(s)
    \/ \E s \in 1..MaxSessions : ws_disconnected(s)

FeedSpec == Init /\ [][FeedNext]_vars

-----------------------------------------------------------------------------
\* The watchlist alone: any sequence of add and remove requests.
WatchNext ==
    \/ \E symbol \in WatchSymbols : add_symbol(symbol)
    \/ \E symbol \in WatchSymbols : remove_symbol(symbol)

WatchSpec == Init /\ [][WatchNext]_vars

\* The feed with a changing watchlist: the feed started, the clients, the
\* price feed task and the watchlist handlers interleaved.
TickNext ==
    \/ start_bot
    \/ \E t \in 1..MaxTasks : FeedStep(t)
    \/ \E s \in 1..MaxSessions : ws_connect(s)
    \/ \E s \in 1..MaxSessions : client_gone(s)
    \/ \E s \in 1..MaxSessions : ws_disconnected(s)
    \/ \E symbol \in TickSymbols : add_symbol(symbol)
    \/ \E symbol \in TickSymbols : remove_symbol(symbol)

TickSpec == Init /\ [][TickNext]_vars

\* Requests and the feed on the one event loop: trades and resets interleaved
\* with the price feed task and with clients connecting.
MixNext ==
    \/ \E symbol \in MixSymbols, side \in MixSides, quantity \in MixQuantities :
           manual_trade(symbol, side, quantity)
    \/ \E balance \in MixBalances : reset_account(balance)
    \/ start_bot
    \/ \E t \in 1..MaxTasks : FeedStep(t)
    \/ \E s \in 1..MaxSessions : ws_connect(s)

MixSpec == Init /\ [][MixNext]_vars

\* Resets against everything a reset is not to touch: the feed with its
\* controls and clients, the watchlist and the risk settings, with a trade
\* for the reset to undo.
ResetNext ==
    \/ \E symbol \in MixSymbols : manual_trade(symbol, "buy", 1)
    \/ \E balance \in MixBalances : reset_account(balance)
    \/ start_bot
    \/ pause_bot
    \/ \E t \in 1..MaxTasks : FeedStep(t)
    \/ \E s \in 1..MaxSessions : ws_connect(s)
    \/ \E value \in RiskInputs : update_risk(value, value, value)
    \/ \E symbol \in {"xyz/usd"} : add_symbol(symbol)

ResetSpec == Init /\ [][ResetNext]_vars

\* The connection manager alone: any sequence of connect and disconnect calls.
RegistryNext ==
    \/ \E websocket \in 1..MaxSessions : connect(websocket)
    \/ \E websocket \in 1..MaxSessions : disconnect(websocket)

RegistrySpec == Init /\ [][RegistryNext]_vars

(* The account claims, checked under Spec *)

Ok == [status |-> "ok"]
IsTrade(req) == req.op = "trade"
IsError(resp) == "error" \in DOMAIN resp

\* C1: a manual trade that returns an error leaves cash, positions,
\* positions_value, equity, the trade log and trades_count as they were.
C1_FailedTradeChangesNothing ==
    [][(IsTrade(request') /\ IsError(response'))
        => /\ account_snapshot' = account_snapshot
           /\ positions' = positions
           /\ trade_log' = trade_log
           /\ performance_today' = performance_today]_vars

\* C1's case: after one BUY, a SELL of more than is held was refused.
C1_Witness ==
    /\ IsTrade(request) /\ request.side = "SELL"
    /\ response = Error("insufficient position quantity")
    /\ Len(trade_log) = 1 /\ trade_log[1].side = "BUY"
    /\ Held(positions, request.symbol) = 1 /\ request.quantity = 2

\* C2: in every reachable state equity = cash + positions_value.
C2_EquityIsCashPlusPositions ==
    account_snapshot.equity
        = account_snapshot.cash + account_snapshot.positions_value

\* C2's case: a trade was executed and the recompute priced a held position.
C2_Witness ==
    /\ IsTrade(request) /\ response = Ok
    /\ account_snapshot.positions_value > 0
    /\ account_snapshot.cash < initial_balance

\* C3: a BUY executed with cash >= 0 leaves cash >= 0, and no held quantity
\* is ever negative.
C3_NoNegativeCashOrPosition ==
    /\ [][(/\ IsTrade(request') /\ request'.side = "BUY" /\ response' = Ok
           /\ account_snapshot.cash >= 0)
          => account_snapshot'.cash >= 0]_vars
    /\ [](\A s \in DOMAIN positions : positions[s] >= 0)

\* C3's case: a BUY spent the last of the cash.
C3_Witness ==
    /\ IsTrade(request) /\ request.side = "BUY" /\ response = Ok
    /\ account_snapshot.cash = 0
    /\ positions[request.symbol] > 0

\* C4: a successful trade of q at price p moves exactly q of the symbol and
\* q*p of cash; a BUY goes through iff cash >= q*p, a SELL iff held >= q; no
\* other symbol's quantity changes.
C4_TradeChangesLedgerByTrade ==
    [][(/\ IsTrade(request')
        /\ response' \in {Ok, Error("insufficient cash"),
                          Error("insufficient position quantity")})
       => LET sym == request'.symbol
              q == request'.quantity
              p == request'.quote[1]
              qp == (q * p) \div 10
              held == IF sym \in DOMAIN positions THEN positions[sym] ELSE 0
              held_after == IF sym \in DOMAIN positions' THEN positions'[sym] ELSE 0
          IN  /\ request'.side = "BUY" =>
                    /\ response' = Ok <=> account_snapshot.cash >= qp
                    /\ response' = Ok =>
                          /\ account_snapshot'.cash = account_snapshot.cash - qp
                          /\ held_after = held + q
              /\ request'.side = "SELL" =>
                    /\ response' = Ok <=> held >= q
                    /\ response' = Ok =>
                          /\ account_snapshot'.cash = account_snapshot.cash + qp
                          /\ held_after = held - q
              /\ response' = Ok =>
                    /\ DOMAIN positions' = DOMAIN positions \cup {sym}
                    /\ \A s \in DOMAIN positions \ {sym} : positions'[s] = positions[s]
      ]_vars

\* C4's case: with cash 10000, BUY 0.1 at 20000 went through and left cash
\* 8000, a position of 0.1 and a trade count of 1.
C4_Witness ==
    /\ IsTrade(request) /\ request.side = "BUY" /\ response = Ok
    /\ request.quantity = 1 /\ request.quote = <<20000>>
    /\ account_snapshot.cash = 8000
    /\ positions[request.symbol] = 1
    /\ performance_today.trades_count = 1

HasPositivePrice(req) == req.quote # << >> /\ req.quote[1] > 0

\* C5 as stated: a request with a valid side and quantity <= 0 fails with the
\* invalid-quantity error whether or not the quote source has a price.
C5_QuantityCheckedBeforePrice ==
    (IsTrade(request) /\ request.side \in {"BUY", "SELL"} /\ request.quantity <= 0)
        => response = Error("quantity must be positive")

\* C5 amended: validation is applied in the order side, price, quantity,
\* ledger.  An invalid side fails without the quote source being consulted;
\* a valid side with no positive price fails with the price error whatever
\* the quantity; quantity <= 0 fails with the quantity error only when the
\* quote source gave a positive price.
C5_ValidationOrder ==
    IsTrade(request) =>
        IF request.side \notin {"BUY", "SELL"}
        THEN response = Error("side must be BUY or SELL") /\ request.quote = "none"
        ELSE IF ~HasPositivePrice(request)
        THEN response = Error("Unknown price for symbol")
        ELSE IF request.quantity <= 0
        THEN response = Error("quantity must be positive")
        ELSE response \in {Ok, Error("insufficient cash"),
                           Error("insufficient position quantity")}

\* C5's case: quantity <= 0 and no price; the price error is what came back.
C5_Witness ==
    /\ IsTrade(request) /\ request.side \in {"BUY", "SELL"}
    /\ request.quantity <= 0 /\ request.quote = << >>
    /\ response = Error("Unknown price for symbol")

\* C6: reset with balance B followed at once by a snapshot read returns
\* cash = B, equity = B, positions_value = 0, unrealized_pnl = 0, with no
\* positions held and an empty trade log.
C6_ResetThenSnapshot ==
    (/\ request.op = "snapshot" /\ request.after.op = "reset"
     /\ request.after.balance # << >>)
        => /\ response = [equity |-> request.after.balance[1],
                          cash |-> request.after.balance[1],
                          positions_value |-> 0, unrealized_pnl |-> 0]
           /\ DOMAIN positions = {}
           /\ trade_log = << >>

\* C6's case: the snapshot was read right after reset(MaxBalance).
C6_Witness ==
    /\ request.op = "snapshot" /\ request.after.op = "reset"
    /\ request.after.balance = <<MaxBalance>>
    /\ response.cash = MaxBalance

-----------------------------------------------------------------------------
(* The feed claims, checked under FeedSpec *)

Stopped == ~bot_running
Paused == bot_running /\ bot_paused
Running == bot_running /\ ~bot_paused

\* a step in which send_json delivered a prices message
PricesSent == last_send' # last_send /\ last_send'.type = "prices"

\* C7 as stated: while the feed is paused no session is sent a prices
\* message, also when pause arrives between two sends of one tick's fan-out.
C7_NoTickWhilePaused == [][Paused => ~PricesSent]_vars

\* C8 as stated: a control operation takes a paused feed back to Running
\* without a kill.  pause leaves it paused and kill stops it, so the
\* operation can only be start: after start() has answered "running", the
\* feed is Running.
C8_StartResumesPausedFeed == request.op = "start" => Running

\* C9: kill() leaves the run state Stopped with the handle discarded, and a
\* prices message is sent only while the feed is not stopped and only by the
\* task the handle names: never by a killed task, whether or not a start()
\* has followed the kill.
C9_KillStopsTicks ==
    /\ [](request.op = "kill" => Stopped /\ ~bot_paused /\ bot_task = NoTask)
    /\ [][PricesSent => ~Stopped /\ last_send'.task = bot_task]_vars

\* C9's case: kill arrived while a task was suspended between two sends of a
\* tick's fan-out, the next websocket still open, and start() followed.
C9_Witness ==
    \E t \in DOMAIN tasks :
        /\ tasks[t].pc = "send" /\ tasks[t].must_cancel
        /\ tasks[t].idx < Len(tasks[t].targets)
        /\ sessions[tasks[t].targets[tasks[t].idx + 1]] = "open"
        /\ request.op = "start" /\ bot_running /\ bot_task # t

\* C10 as stated: once the feed has stopped, the stopped status is broadcast.
\* Only price_feed broadcasts it (line 227), so a task that has ended must
\* have made that broadcast.
C10_StoppedStatusBroadcast ==
    \A t \in DOMAIN tasks : tasks[t].pc = "done" => tasks[t].notified

-----------------------------------------------------------------------------
(* The broadcast claim, checked under FeedSpec *)

Elems(list) == {list[i] : i \in DOMAIN list}

\* a step in which the event loop ran a task that was not cancelled: no
\* handler and no client moved, and a task or the registry changed
FeedRan ==
    /\ sessions' = sessions
    /\ Len(tasks') = Len(tasks)
    /\ \A t \in DOMAIN tasks : tasks'[t].must_cancel = tasks[t].must_cancel
    /\ tasks' # tasks \/ active_connections' # active_connections

\* task t, when it runs, is inside a broadcast or starts one: the loop head
\* of a paused feed starts none
InBroadcast(t) == tasks[t].pc = "send" \/ ~(bot_running /\ bot_paused)

\* What one run of task t did to the fan-out of its broadcast.  T is the
\* copy of the registry the broadcast iterates, from the first position this
\* run attempted, to the position whose send was delivered (past the end of
\* T when the broadcast completed in this run).
FanOutStep(t) ==
    LET T == IF tasks[t].pc = "send" THEN tasks[t].targets ELSE active_connections
        from == IF tasks[t].pc = "send" THEN tasks[t].idx + 1 ELSE 1
        to == IF tasks'[t].pc = "send" THEN tasks'[t].idx ELSE Len(T) + 1
        failed == {T[i] : i \in from..(to - 1)}
    IN  /\ to >= from
        \* the copy is the one taken when the broadcast started
        /\ tasks'[t].pc = "send" => tasks'[t].targets = T
        \* every position passed over was attempted and its send raised
        /\ \A s \in failed : sessions[s] # "open"
        \* the send this run stopped at was delivered
        /\ to <= Len(T) =>
              /\ sessions[T[to]] = "open"
              /\ last_send' # last_send
              /\ last_send'.session = T[to] /\ last_send'.task = t
        /\ to > Len(T) => last_send' = last_send
        \* the registry lost the failed sessions and nothing else
        /\ Elems(active_connections') = Elems(active_connections) \ failed
        \* the failure was not raised: price_feed went on to its sleep, or to
        \* its return after the status broadcast
        /\ tasks'[t].pc \in {"send", "sleep", "done"}
        /\ tasks'[t].pc = "done" => tasks'[t].notified

\* C11: a broadcast attempts a delivery to every session of the registry as
\* it was when the broadcast started, whichever of them fail or unregister
\* meanwhile: the fan-out passes over a session only when its send failed,
\* every session whose send failed is out of the registry, every other
\* session stays registered, and the failure does not end the caller.
C11_BroadcastIsolatesFailures ==
    [][FeedRan =>
          /\ \A t \in DOMAIN tasks :
                 (tasks'[t] # tasks[t] /\ InBroadcast(t)) => FanOutStep(t)
          /\ tasks' = tasks =>
                /\ \A s \in Elems(active_connections) : sessions[s] # "open"
                /\ active_connections' = << >>]_vars

\* C11's case: the first session of the copy had gone, its send failed and
\* it was dropped; the second session was sent the message all the same.
C11_Witness ==
    \E t \in DOMAIN tasks :
        /\ tasks[t].pc = "send" /\ tasks[t].idx = 2
        /\ sessions[tasks[t].targets[1]] = "gone"
        /\ tasks[t].targets[1] \notin Elems(active_connections)
        /\ last_send.session = tasks[t].targets[2] /\ last_send.task = t
        /\ tasks[t].targets[2] \in Elems(active_connections)

-----------------------------------------------------------------------------
(* The registry claim, checked under RegistrySpec *)

\* C12 as stated: once disconnect(s) has returned, s is not in the registry,
\* whatever connect and disconnect calls came before, a second connect of
\* the same websocket included.
C12_UnregisteredIsAbsent ==
    request.op = "disconnect" => request.websocket \notin Elems(active_connections)

-----------------------------------------------------------------------------
(* The watchlist claim, checked under WatchSpec *)

IsUpperCase(s) == \A i \in DOMAIN Spelling[s] : Spelling[s][i] \notin Elems(LowerCase)

\* the same symbol up to letter case
SameSymbol(a, b) ==
    /\ Len(Spelling[a]) = Len(Spelling[b])
    /\ \A i \in DOMAIN Spelling[a] :
          \/ Spelling[a][i] = Spelling[b][i]
          \/ UpperChar[Spelling[a][i]] = UpperChar[Spelling[b][i]]

OnWatchlist(symbol, list) == \E i \in DOMAIN list : SameSymbol(symbol, list[i])

\* C13: the watchlist never holds a symbol twice and holds upper-case
\* symbols only; adding a symbol that is on it, in any letter case, leaves it
\* as it was; adding a symbol that is not on it and then removing that
\* symbol, in any letter case, restores the list, order included.
C13_WatchlistIsUpperCaseSet ==
    /\ [](/\ \A i, j \in DOMAIN watchlist : watchlist[i] = watchlist[j] => i = j
          /\ \A i \in DOMAIN watchlist : IsUpperCase(watchlist[i]))
    /\ [][(request'.op = "add" /\ OnWatchlist(request'.symbol, watchlist))
             => watchlist' = watchlist]_vars
    /\ [][(/\ request.op = "add" /\ ~OnWatchlist(request.symbol, request.before)
           /\ request'.op = "remove" /\ SameSymbol(request'.symbol, request.symbol))
             => watchlist' = request.before]_vars

\* C13's case: a symbol that was added in one spelling has just been removed
\* in another, and the watchlist is the initial one again.
C13_Witness ==
    /\ request.op = "remove" /\ request.symbol = "xyz/usd"
    /\ request.before = watchlist \o <<"XYZ/USD">>
    /\ watchlist = <<"BTC/USD", "ETH/USD", "SOL/USD", "DOT/USD", "DOGE/USD">>

-----------------------------------------------------------------------------
(* The last-trade claim, checked under Spec *)

\* C14 as stated: once a manual trade has succeeded, get_last_trade returns
\* the most recent trade, the one the last entry of the trade log records.
C14_LastTradeIsLatestLogEntry ==
    (request.op = "last_trade" /\ trade_log # << >>)
        => /\ response.symbol = trade_log[Len(trade_log)].symbol
           /\ response.side = trade_log[Len(trade_log)].side

-----------------------------------------------------------------------------
(* The recompute claim, checked under Spec *)

RECURSIVE Total(_, _)
\* the sum of value[s] over the symbols s of the set syms
Total(syms, value) ==
    IF syms = {} THEN 0
    ELSE LET s == CHOOSE x \in syms : TRUE
         IN  value[s] + Total(syms \ {s}, value)

\* C15: after every recompute of the snapshot, positions_value is the sum of
\* quantity * price over exactly the held symbols the recompute's lookup
\* returned a price for.  A held symbol the lookup left out adds nothing to
\* this recompute; whether it adds to the next depends on the next lookup
\* alone.
C15_PositionsValueIsPricedHoldings ==
    (IsTrade(request) /\ response = Ok)
        => /\ DOMAIN lookup \subseteq DOMAIN positions
           /\ account_snapshot.positions_value
                 = Total(DOMAIN positions \cap DOMAIN lookup,
                         [s \in DOMAIN lookup |-> (positions[s] * lookup[s]) \div 10])

\* C15's case: two symbols are held, the lookup priced one of them and left
\* the other out, and positions_value is the value of the priced one.
C15_Witness ==
    /\ IsTrade(request) /\ response = Ok
    /\ \E s, u \in DOMAIN positions :
          /\ s # u /\ positions[s] > 0 /\ positions[u] > 0
          /\ u \in DOMAIN SYMBOL_TO_ID
          /\ DOMAIN lookup = {s} /\ lookup[s] > 0
          /\ account_snapshot.positions_value = (positions[s] * lookup[s]) \div 10

-----------------------------------------------------------------------------
(* The run-state claim, checked under FeedSpec *)

\* the tasks whose loop can still send a tick: not returned and not cancelled
LiveLoops == {t \in DOMAIN tasks : tasks[t].pc # "done" /\ ~tasks[t].must_cancel}

\* C16: there is at most one loop that can still send ticks, and there is
\* one exactly when the feed is Running or Paused: the handle is set iff
\* bot_running is, it names that loop, and bot_paused is never set while
\* bot_running is clear.  While the feed is Running or Paused no step creates
\* a task, and a step that leaves it so (start() among them) keeps the handle
\* and does not clear bot_paused; while it is Stopped a step that leaves it
\* so (pause() among them) changes no flag, no handle and creates no task.
C16_RunStateConsistent ==
    /\ [](/\ bot_task # NoTask <=> bot_running
          /\ bot_paused => bot_running
          /\ LiveLoops = IF bot_running THEN {bot_task} ELSE {})
    /\ [][bot_running =>
             /\ Len(tasks') = Len(tasks)
             /\ bot_running' => (bot_task' = bot_task /\ (bot_paused => bot_paused'))]_vars
    /\ [][(~bot_running /\ ~bot_running') =>
             /\ Len(tasks') = Len(tasks)
             /\ bot_task' = bot_task /\ bot_paused' = bot_paused]_vars

\* C16's case: start() was called on a paused feed; the feed is still paused
\* and the one task ever created is still its loop.
C16_Witness ==
    /\ request.op = "start" /\ bot_running /\ bot_paused
    /\ Len(tasks) = 1 /\ bot_task = 1 /\ LiveLoops = {1}

-----------------------------------------------------------------------------
(* The tick claim, checked under TickSpec *)

\* task t is suspended in the fan-out of a tick
InTick(task) == task.pc = "send" /\ task.message.type = "prices"

\* C17: a tick's symbols are the watchlist as it was when the tick was
\* generated, and stay so for the whole fan-out: the payload a task is
\* fanning out does not change from one send to the next whatever happens to
\* the watchlist meanwhile, every prices message delivered is that payload,
\* and a tick generated in a step holds the watchlist of that step.
C17_TickIsWatchlistSnapshot ==
    /\ [][\A t \in DOMAIN tasks :
             (InTick(tasks[t]) /\ InTick(tasks'[t]))
                 => tasks'[t].message = tasks[t].message]_vars
    /\ [][\A t \in DOMAIN tasks' :
             (InTick(tasks'[t]) /\ (t \in DOMAIN tasks => ~InTick(tasks[t])))
                 => Elems(tasks'[t].message.data) = Elems(watchlist)]_vars
    /\ [][PricesSent =>
             /\ InTick(tasks'[last_send'.task])
             /\ last_send'.data = tasks'[last_send'.task].message.data]_vars

\* C17's case: a tick has reached the first of two sessions, the second is
\* still to come, and the watchlist has changed since the tick was generated.
C17_Witness ==
    \E t \in DOMAIN tasks :
        /\ InTick(tasks[t]) /\ ~tasks[t].must_cancel
        /\ tasks[t].idx = 1 /\ Len(tasks[t].targets) = 2
        /\ sessions[tasks[t].targets[2]] = "open"
        /\ last_send.task = t /\ last_send.data = tasks[t].message.data
        /\ request.op \in {"add", "remove"}
        /\ request.before = tasks[t].message.data
        /\ Elems(watchlist) # Elems(tasks[t].message.data)

-----------------------------------------------------------------------------
(* The serialization claim, checked under MixSpec *)

\* float() of a number the log holds formatted as a string
Parsed(text) == text[2]

RECURSIVE ReplayCash(_, _)
\* the cash left after the trades of the log, one after the other
ReplayCash(log, cash) ==
    IF log = << >> THEN cash
    ELSE LET e == Head(log)
             amount == (Parsed(e.quantity) * Parsed(e.price)) \div 10
         IN  ReplayCash(Tail(log), IF e.side = "BUY" THEN cash - amount
                                   ELSE cash + amount)

RECURSIVE ReplayHeld(_, _)
\* the quantity of sym held after the trades of the log, one after the other
ReplayHeld(log, sym) ==
    IF log = << >> THEN 0
    ELSE LET e == log[Len(log)]
             q == IF e.symbol # sym THEN 0
                  ELSE IF e.side = "BUY" THEN Parsed(e.quantity)
                  ELSE 0 - Parsed(e.quantity)
         IN  ReplayHeld(SubSeq(log, 1, Len(log) - 1), sym) + q

\* the step changed the account
LedgerChanged ==
    \/ account_snapshot' # account_snapshot \/ positions' # positions
    \/ trade_log' # trade_log \/ performance_today' # performance_today

\* C18: a trade is one uninterrupted step of the event loop.  Every step
\* that changes the account is one whole request, a successful trade or a
\* reset, with its recompute done, and it moves neither the feed nor the
\* registry; a successful trade adds its own entry at the end of the log, so
\* the log is in the order the trades were handled; and in every state the
\* account is what the trades of the log give when they are executed one at
\* a time, in log order, from the balance of the last reset.
C18_TradesAreSerialized ==
    /\ [][LedgerChanged =>
             /\ UNCHANGED <<tasks, active_connections, sessions, last_send>>
             /\ account_snapshot'.equity
                    = account_snapshot'.cash + account_snapshot'.positions_value
             /\ \/ /\ request'.op = "reset"
                   /\ trade_log' = << >>
                \/ /\ IsTrade(request') /\ response' = Ok
                   /\ trade_log' = Append(trade_log,
                          [symbol |-> request'.symbol, side |-> request'.side,
                           quantity |-> <<"str", request'.quantity>>,
                           price |-> <<"str", request'.quote[1]>>])]_vars
    /\ [](/\ account_snapshot.cash = ReplayCash(trade_log, initial_balance)
          /\ DOMAIN positions = {trade_log[i].symbol : i \in DOMAIN trade_log}
          /\ \A s \in DOMAIN positions : positions[s] = ReplayHeld(trade_log, s)
          /\ performance_today.trades_count = Len(trade_log))

\* C18's case: between two sends of a tick's fan-out a BUY and then a SELL
\* were handled, and the log holds them in that order.
C18_Witness ==
    /\ Len(trade_log) = 2
    /\ trade_log[1].side = "BUY" /\ trade_log[2].side = "SELL"
    /\ IsTrade(request) /\ request.side = "SELL" /\ response = Ok
    /\ \E t \in DOMAIN tasks :
          /\ tasks[t].pc = "send" /\ tasks[t].idx = 1 /\ Len(tasks[t].targets) = 2
          /\ sessions[tasks[t].targets[2]] = "open"

-----------------------------------------------------------------------------
(* The trade count claim, checked under Spec *)

\* C19: trades_count is the length of the trade log in every state.  A
\* successful trade appends one entry and adds 1 to trades_count; a failed
\* trade changes neither; reset empties the log and zeroes the count; and no
\* step but a reset removes or rewrites an entry the log already holds.
C19_TradesCountIsLogLength ==
    /\ [](performance_today.trades_count = Len(trade_log))
    /\ [][(IsTrade(request') /\ response' = Ok)
             => /\ Len(trade_log') = Len(trade_log) + 1
                /\ performance_today'.trades_count
                       = performance_today.trades_count + 1]_vars
    /\ [][(IsTrade(request') /\ IsError(response'))
             => /\ trade_log' = trade_log
                /\ performance_today'.trades_count
                       = performance_today.trades_count]_vars
    /\ [][request'.op = "reset"
             => trade_log' = << >> /\ performance_today'.trades_count = 0]_vars
    /\ [][request'.op # "reset"
             => /\ Len(trade_log') >= Len(trade_log)
                /\ SubSeq(trade_log', 1, Len(trade_log)) = trade_log]_vars

\* C19's case: two trades were executed and a third request was refused;
\* the log and the count both stand at two.
C19_Witness ==
    /\ IsTrade(request) /\ IsError(response)
    /\ Len(trade_log) = 2 /\ performance_today.trades_count = 2

-----------------------------------------------------------------------------
(* The reset frame claim, checked under ResetSpec *)

\* the step handled a reset request
ResetHandled ==
    /\ request'.op = "reset"
    /\ \/ request' # request \/ response' # response
       \/ LedgerChanged \/ initial_balance' # initial_balance

\* C20: a reset, with or without a balance, leaves the running and paused
\* flags, the task handle and the task itself, the watchlist, the risk
\* settings and the session registry as they were, so the feed task goes on
\* from where it was.
C20_ResetLeavesFeedAlone ==
    [][ResetHandled
          => UNCHANGED <<bot_running, bot_paused, bot_task, tasks, watchlist,
                         settings, active_connections, sessions, last_send>>]_vars

\* C20's case: a reset to a new balance has just undone a trade while the
\* feed was running, its task between two sends of a tick, with a changed
\* watchlist and changed risk settings.
C20_Witness ==
    /\ request.op = "reset" /\ request.balance = <<MaxBalance>>
    /\ response.cash = MaxBalance /\ account_snapshot.cash = MaxBalance
    /\ trade_log = << >>
    /\ bot_running /\ ~bot_paused
    /\ \E t \in DOMAIN tasks :
          /\ bot_task = t /\ tasks[t].pc = "send" /\ tasks[t].idx = 1
          /\ Len(tasks[t].targets) = 2 /\ sessions[tasks[t].targets[2]] = "open"
    /\ Len(watchlist) = 6
    /\ settings.position_size # 1000

=============================================================================
